---- MODULE Spec2Model ----
(***************************************************************************)
(* Model of templates/bigquery.py: the two Dataproc job templates          *)
(*   BigQueryToNeo4jGDSTemplate  (import: BigQuery tables -> Neo4j GDS)    *)
(*   Neo4jGDSToBigQueryTemplate  (export: Neo4j GDS -> BigQuery table)     *)
(* and the helper functions they use.                                      *)
(*                                                                         *)
(* A job is parse_args followed by run.  run is split into one step per    *)
(* external call (model load, secret fetch, client construction, server    *)
(* calls, Spark stages); pc is the driver's position in run.  The Spark    *)
(* tasks of a stage are separate actions that interleave freely while the  *)
(* driver is blocked in the stage's reduce / collect.                      *)
(***************************************************************************)
EXTENDS Integers, Sequences, FiniteSets, TLC

VARIABLES
    bq_args,      \* util.bq_params(): environment-sourced argument fragments
    argv,         \* the explicitly supplied arguments (args / sys.argv)
    args,         \* the configuration mapping returned by parse_args
    pc,           \* the driver's position in the job
    outcome,      \* how the process ended: "running", "ok", "exit1", or the exception
    log,          \* set of job-level log lines emitted (by tag)
    graph,        \* import: the graph model (<<>> until loaded, else <<model>>)
    fetches,      \* the calls of util.fetch_secret: [name, result], in order
    client,       \* the Neo4jArrowClient binding (<<>> until constructed)
    server,       \* operations received by the graph server, in order
    node_streams, \* import: number of BQStreams prepared for nodes
    edge_streams, \* import: number of BQStreams prepared for edges
    pending,      \* import: streams of the running stage not yet processed
    results,      \* import: (rows, bytes) results of the running stage's tasks
    cnt,          \* cnt as last assigned by the driver (-1: unassigned)
    sink,         \* export: the BigQuerySink (<<>> until constructed)
    plan,         \* export: reader, converter and filters chosen (<<>> until chosen)
    batches,      \* export: the batches the reader has accumulated (rows)
    parts,        \* the partitions of the append stage, each running _append_batch
    reader,       \* the locals of _read_nodes / _read_edges and what it logged
    imp_ns,       \* argument study: import parse_args result (<<>> until parsed)
    exp_ns,       \* argument study: export parse_args result (<<>> until parsed)
    mode,         \* to_stream_fn: the mode the returned function closes over
    tables,       \* to_stream_fn: table names the returned function is still to map
    calls,        \* to_stream_fn: number of calls of the returned function
    requests,     \* the bq.table(table_name, fields=...) calls, in order
    partials,     \* reduce(tuple_sum): the partial results not yet combined
    lists,        \* flatten: the list of lists it is given
    flat          \* flatten: the list it returned

vars == <<bq_args, argv, args, pc, outcome, log, graph, fetches, client,
          server, node_streams, edge_streams, pending, results, cnt,
          sink, plan, batches, parts, reader, imp_ns, exp_ns,
          mode, tables, calls, requests, partials, lists, flat>>

jobVars == <<graph, fetches, client, server, node_streams, edge_streams,
             pending, results, cnt>>
exportVars == <<sink, plan, batches, parts, reader>>
studyVars == <<imp_ns, exp_ns>>
streamVars == <<mode, tables, calls, requests>>
helperVars == <<partials, lists, flat>>

----------------------------------------------------------------------------
(* Bounds of the model *)

MaxStreams == 2     \* streams the warehouse source returns for one table
MaxRows == 1        \* rows one stream / one batch carries
MaxTokens == 2      \* argument tokens per list in the argument study

(* Python's None *)
None == "<None>"

----------------------------------------------------------------------------
(* argparse: a token is one "--key value" pair; parse_known_args applies   *)
(* the tokens left to right on top of the defaults, a later occurrence of  *)
(* an option replacing an earlier one, and leaves unknown options alone.   *)

Token(k, v) == [k |-> k, v |-> v]

(* parser.add_argument(...) of BigQueryToNeo4jGDSTemplate.parse_args *)
ImportDefaults ==
    [ graph_name        |-> None,
      neo4j_db_name     |-> "neo4j",
      graph_json        |-> None,
      graph_uri         |-> None,
      neo4j_secret      |-> None,
      neo4j_host        |-> "localhost",
      neo4j_port        |-> 8491,
      neo4j_use_tls     |-> TRUE,
      neo4j_user        |-> "neo4j",
      neo4j_password    |-> None,
      neo4j_concurrency |-> 4,
      node_tables       |-> <<>>,
      edge_tables       |-> <<>>,
      bq_project        |-> None,
      bq_dataset        |-> None,
      debug             |-> FALSE ]

(* parser.add_argument(...) of Neo4jGDSToBigQueryTemplate.parse_args *)
ExportDefaults ==
    [ graph_name        |-> None,
      neo4j_db_name     |-> "neo4j",
      neo4j_secret      |-> None,
      neo4j_host        |-> "localhost",
      neo4j_port        |-> 8491,
      neo4j_use_tls     |-> TRUE,
      neo4j_user        |-> "neo4j",
      neo4j_password    |-> None,
      neo4j_concurrency |-> 4,
      bq_table          |-> None,
      bq_project        |-> None,
      bq_dataset        |-> None,
      neo4j_labels      |-> <<"*">>,
      neo4j_types       |-> <<"*">>,
      neo4j_properties  |-> <<>>,
      bq_sink_mode      |-> "nodes",
      debug             |-> FALSE ]

RECURSIVE parse_known_args(_, _)
parse_known_args(ns, tokens) ==
    IF tokens = <<>> THEN ns
    ELSE LET t == Head(tokens)
         IN  parse_known_args(
                 IF t.k \in DOMAIN ns THEN [ns EXCEPT ![t.k] = t.v] ELSE ns,
                 Tail(tokens))

ImportParseArgs(bq, a) ==
    IF bq # <<>> THEN parse_known_args(ImportDefaults, bq)
                 ELSE parse_known_args(ImportDefaults, a)

ExportParseArgs(bq, a) ==
    IF bq # <<>> THEN parse_known_args(ExportDefaults, bq \o a)
                 ELSE parse_known_args(ExportDefaults, a)

----------------------------------------------------------------------------
(* External boundaries the jobs call into *)

(* Python truthiness of an optional string: None and "" are false *)
Truthy(v) == v # None /\ v # ""

(* na.model.Graph.from_json: a graph model, or <<>> when the text does not *)
(* parse (the library raises)                                              *)
from_json(text) ==
    IF text = "{model}"
    THEN <<[name |-> "g_inline", db |-> "db_inline", content |-> "inline",
            nodes |-> <<[source |-> "n1", properties |-> <<"p">>,
                         key_field |-> "id", label_field |-> "lbl"]>>,
            edges |-> <<[source |-> "e1", properties |-> <<>>,
                         source_field |-> "src", target_field |-> "dst",
                         type_field |-> ""]>>]>>
    ELSE <<>>

(* load_model_from_gcs: the model read from the uri, or <<>> (None) when   *)
(* the open, the read or the parse raised                                  *)
load_model_from_gcs(uri) ==
    IF uri = "gs://ok"
    THEN <<[name |-> "g_remote", db |-> "db_remote", content |-> "remote",
            nodes |-> <<[source |-> "n1", properties |-> <<>>,
                         key_field |-> "id", label_field |-> ""]>>,
            edges |-> <<>>]>>
    ELSE <<>>

(* util.fetch_secret: <<>> is the absent result, <<m>> a fetched mapping *)
SecretPayloads ==
    { [neo4j_host |-> "secret-host", neo4j_password |-> "secret-pw",
       graph_name |-> "secret-graph", neo4j_db_name |-> "secret-db"] }

FetchResults == {<<>>} \cup {<<m>> : m \in SecretPayloads}

(* dict.update *)
Update(d, m) ==
    [k \in (DOMAIN d) \cup (DOMAIN m) |-> IF k \in DOMAIN m THEN m[k] ELSE d[k]]

----------------------------------------------------------------------------
(* Helpers of templates/bigquery.py *)

tuple_sumKeepsLeftBytes(a, b) == <<a[1] + b[1], a[2]>>

tuple_sum(a, b) == <<a[1] + b[1], a[2] + b[2]>>

(* RDD.reduce(tuple_sum) over the results of a non-empty stage *)
RECURSIVE Reduce(_)
Reduce(rs) ==
    IF Len(rs) = 1 THEN rs[1] ELSE tuple_sum(rs[1], Reduce(Tail(rs)))

RowBytes == 2       \* bytes one row contributes to a write result

HasOp(o) == \E i \in 1..Len(server) : server[i].op = o

RECURSIVE RowsOf(_, _)
RowsOf(ops, o) ==
    IF ops = <<>> THEN 0
    ELSE (IF Head(ops).op = o THEN Head(ops).n ELSE 0) + RowsOf(Tail(ops), o)

Raise(e) ==
    /\ pc' = "aborted"
    /\ outcome' = e

RECURSIVE flattenLastFirst(_)
flattenLastFirst(ls) ==
    IF ls = <<>> THEN <<>> ELSE flattenLastFirst(Tail(ls)) \o Head(ls)

(* flatten with the default fn: [x for y in lists for x in y] *)
RECURSIVE flatten(_)
flatten(ls) ==
    IF ls = <<>> THEN <<>> ELSE Head(ls) \o flatten(Tail(ls))

(* Graph.node_for_src / Graph.edge_for_src: the first mapping of the table, *)
(* <<>> (None) when the model maps no such source                          *)
RECURSIVE for_src(_, _)
for_src(mappings, table_name) ==
    IF mappings = <<>> THEN <<>>
    ELSE IF Head(mappings).source = table_name THEN <<Head(mappings)>>
    ELSE for_src(Tail(mappings), table_name)

(* fields.append(f) under "if f:" *)
IfSet(f) == IF Truthy(f) THEN <<f>> ELSE <<>>

InvalidMode == "ValueError: invalid mode. expected 'node' or 'edge'."

to_streamDropsLabel(m, g, table_name) ==
    IF m = "node"
    THEN LET node == for_src(g.nodes, table_name)
         IN  [raised |-> FALSE,
              fields |-> IF node = <<>> THEN <<>>
                         ELSE node[1].properties \o IfSet(node[1].key_field)]
    ELSE IF m = "edge"
    THEN LET edge == for_src(g.edges, table_name)
         IN  [raised |-> FALSE,
              fields |-> IF edge = <<>> THEN <<>>
                         ELSE edge[1].properties \o IfSet(edge[1].source_field)
                                 \o IfSet(edge[1].target_field)
                                 \o IfSet(edge[1].type_field)]
    ELSE [raised |-> TRUE, fields |-> <<>>]

(* to_stream_fn._to_stream up to its last line: the fields it collected,   *)
(* or raised when the mode is neither "node" nor "edge"                    *)
to_stream(m, g, table_name) ==
    IF m = "node"
    THEN LET node == for_src(g.nodes, table_name)
         IN  [raised |-> FALSE,
              fields |-> IF node = <<>> THEN <<>>
                         ELSE node[1].properties \o IfSet(node[1].key_field)
                                 \o IfSet(node[1].label_field)]
    ELSE IF m = "edge"
    THEN LET edge == for_src(g.edges, table_name)
         IN  [raised |-> FALSE,
              fields |-> IF edge = <<>> THEN <<>>
                         ELSE edge[1].properties \o IfSet(edge[1].source_field)
                                 \o IfSet(edge[1].target_field)
                                 \o IfSet(edge[1].type_field)]
    ELSE [raised |-> TRUE, fields |-> <<>>]

(* map(to_stream_fn(m, bq, graph), table_names) for a valid mode: the      *)
(* bq.table calls it makes, in order                                       *)
RECURSIVE RequestsFor(_, _, _)
RequestsFor(m, g, table_names) ==
    IF table_names = <<>> THEN <<>>
    ELSE <<[table |-> Head(table_names),
            fields |-> to_stream(m, g, Head(table_names)).fields]>>
            \o RequestsFor(m, g, Tail(table_names))

(* read_nodes._read_nodes / read_edges._read_edges: rows, cnt, log_cnt, sz *)
(* as the function sets them, the "...read N" lines it logged (N and the   *)
(* cumulative count at the line) and its final "read cnt, sz bytes" line   *)
ProgressEvery == 100000

ReaderStart ==
    [rows |-> <<>>, cnt |-> 0, log_cnt |-> 0, sz |-> 0,
     progress |-> <<>>, summary |-> <<>>]

(* the body of the for loop, for a batch of num_rows rows and nbytes bytes *)
ReaderLoopLogsAtThreshold(r, num_rows, nbytes) ==
    LET lc == r.log_cnt + num_rows
    IN  [r EXCEPT !.rows = Append(@, num_rows),
                  !.cnt = @ + num_rows,
                  !.sz = @ + nbytes,
                  !.log_cnt = IF lc >= ProgressEvery THEN 0 ELSE lc,
                  !.progress = IF lc >= ProgressEvery
                               THEN Append(@, [n |-> lc, at |-> r.cnt + num_rows])
                               ELSE @]

ReaderLoop(r, num_rows, nbytes) ==
    LET lc == r.log_cnt + num_rows
    IN  [r EXCEPT !.rows = Append(@, num_rows),
                  !.cnt = @ + num_rows,
                  !.sz = @ + nbytes,
                  !.log_cnt = IF lc > ProgressEvery THEN 0 ELSE lc,
                  !.progress = IF lc > ProgressEvery
                               THEN Append(@, [n |-> lc, at |-> r.cnt + num_rows])
                               ELSE @]

(* after the loop: the summary line; the list is returned *)
ReaderEnd(r) == [r EXCEPT !.summary = <<[cnt |-> r.cnt, sz |-> r.sz]>>]

----------------------------------------------------------------------------
(* BigQueryToNeo4jGDSTemplate *)

Opt(k, vals) == {<<>>} \cup {<<Token(k, v)>> : v \in vals}

ImportArgvs ==
    { n \o a \o b \o c \o d \o e :
        n \in Opt("graph_name", {"g_arg"}),
        a \in Opt("graph_json", {"", "{model}", "{bad"}),
        b \in Opt("graph_uri", {"gs://ok", "gs://missing"}),
        c \in Opt("neo4j_secret", {"my-secret"}),
        d \in Opt("node_tables", {<<"n1">>}),
        e \in Opt("edge_tables", {<<"e1">>}) }

ImportFragments == Opt("graph_uri", {"gs://ok"})

InitJobExceptParts ==
    /\ outcome = "running"
    /\ log = {}
    /\ graph = <<>>
    /\ fetches = <<>>
    /\ client = <<>>
    /\ server = <<>>
    /\ node_streams = 0
    /\ edge_streams = 0
    /\ pending = {}
    /\ results = <<>>
    /\ cnt = -1
    /\ sink = <<>>
    /\ plan = <<>>
    /\ batches = <<>>
    /\ reader = ReaderStart
    /\ imp_ns = <<>>
    /\ exp_ns = <<>>
    /\ mode = None
    /\ tables = <<>>
    /\ calls = 0
    /\ requests = <<>>
    /\ partials = <<>>
    /\ lists = <<>>
    /\ flat = <<>>

InitJob ==
    /\ InitJobExceptParts
    /\ parts = <<>>

InitImport ==
    /\ bq_args \in ImportFragments
    /\ argv \in ImportArgvs
    /\ args = ImportDefaults
    /\ pc = "parse_args"
    /\ InitJob

ImportParse ==
    /\ pc = "parse_args"
    /\ args' = ImportParseArgs(bq_args, argv)
    /\ pc' = "load_model"
    /\ UNCHANGED <<bq_args, argv, outcome, log, jobVars, exportVars, studyVars, streamVars, helperVars>>

(* 1. Load the Graph Model: the model, or the error raised *)
ResolveModelUriFirst(a) ==
    IF Truthy(a.graph_uri)
    THEN LET g == load_model_from_gcs(a.graph_uri)
         IN  [graph |-> g,
              error |-> IF g = <<>> THEN "ValueError: failed to load graph"
                                    ELSE "none"]
    ELSE IF Truthy(a.graph_json)
    THEN LET g == from_json(a.graph_json)
         IN  [graph |-> g,
              error |-> IF g = <<>> THEN "from_json raised" ELSE "none"]
    ELSE [graph |-> <<>>,
          error |-> "ValueError: missing graph data model uri or literal JSON"]

ResolveModel(a) ==
    IF Truthy(a.graph_json)
    THEN LET g == from_json(a.graph_json)
         IN  [graph |-> g,
              error |-> IF g = <<>> THEN "from_json raised" ELSE "none"]
    ELSE IF Truthy(a.graph_uri)
    THEN LET g == load_model_from_gcs(a.graph_uri)
         IN  [graph |-> g,
              error |-> IF g = <<>> THEN "ValueError: failed to load graph"
                                    ELSE "none"]
    ELSE [graph |-> <<>>,
          error |-> "ValueError: missing graph data model uri or literal JSON"]

LoadModel ==
    /\ pc = "load_model"
    /\ LET r == ResolveModel(args)
       IN  IF r.error = "none"
           THEN /\ graph' = r.graph
                /\ pc' = "override"
                /\ UNCHANGED outcome
           ELSE /\ Raise(r.error)
                /\ UNCHANGED graph
    /\ UNCHANGED <<bq_args, argv, args, log, fetches, client, server,
                   node_streams, edge_streams, pending, results, cnt, exportVars, studyVars, streamVars, helperVars>>

(* 1b. Override graph and/or database name *)
OverrideNames ==
    /\ pc = "override"
    /\ LET g0 == graph[1]
           g1 == IF "graph_name" \in DOMAIN args
                 THEN [g0 EXCEPT !.name = args.graph_name] ELSE g0
           g2 == IF "neo4j_db_name" \in DOMAIN args
                 THEN [g1 EXCEPT !.db = args.neo4j_db_name] ELSE g1
       IN  graph' = <<g2>>
    /\ pc' = "resolve_secret"
    /\ UNCHANGED <<bq_args, argv, args, outcome, log, fetches, client, server,
                   node_streams, edge_streams, pending, results, cnt, exportVars, studyVars, streamVars, helperVars>>

(* 2a. the configuration after the fetch returned `fetched` *)
MergeSecretNullsHostOnFailure(a, fetched) ==
    IF fetched = <<>> THEN [a EXCEPT !.neo4j_host = None]
                      ELSE Update(a, fetched[1])

MergeSecret(a, fetched) ==
    IF fetched = <<>> THEN a ELSE Update(a, fetched[1])

(* 2a / 2. Fetch our secret if any (both jobs) *)
FetchSecret(next) ==
    IF "neo4j_secret" \in DOMAIN args
    THEN /\ \E fetched \in FetchResults :
               /\ fetches' = Append(fetches, [name |-> args.neo4j_secret,
                                              result |-> fetched])
               /\ args' = MergeSecret(args, fetched)
               /\ log' = IF fetched = <<>> THEN log \cup {"warn: failed to fetch secret"}
                                           ELSE log
         /\ pc' = next
    ELSE /\ pc' = next
         /\ UNCHANGED <<fetches, args, log>>

ImportResolveSecret ==
    /\ pc = "resolve_secret"
    /\ FetchSecret("open_clients")
    /\ UNCHANGED <<bq_args, argv, outcome, graph, client, server,
                   node_streams, edge_streams, pending, results, cnt, exportVars, studyVars, streamVars, helperVars>>

(* 2b. Initialize our clients for source and sink *)
ImportOpenClients ==
    /\ pc = "open_clients"
    /\ client' = <<[host |-> args.neo4j_host, graph |-> graph[1].name,
                    port |-> args.neo4j_port, tls |-> args.neo4j_use_tls,
                    database |-> graph[1].db, user |-> args.neo4j_user,
                    password |-> args.neo4j_password,
                    concurrency |-> args.neo4j_concurrency]>>
    /\ pc' = "prepare_streams"
    /\ UNCHANGED <<bq_args, argv, args, outcome, log, graph, fetches, server,
                   node_streams, edge_streams, pending, results, cnt, exportVars, studyVars, streamVars, helperVars>>

(* bq.table: the streams the source returns for one table *)
BQStreams == {[i \in 1..k |-> "stream"] : k \in 0..MaxStreams}

(* 3. Prepare our collection of streams: the source returns some streams   *)
(* for every table                                                         *)
PrepareStreams ==
    /\ pc = "prepare_streams"
    /\ \E ns \in [1..Len(args.node_tables) -> BQStreams],
          es \in [1..Len(args.edge_tables) -> BQStreams] :
          /\ node_streams' = Len(flatten(ns))
          /\ edge_streams' = Len(flatten(es))
    /\ requests' = requests \o RequestsFor("node", graph[1], args.node_tables)
                             \o RequestsFor("edge", graph[1], args.edge_tables)
    /\ calls' = calls + Len(args.node_tables) + Len(args.edge_tables)
    /\ pc' = "start"
    /\ UNCHANGED <<bq_args, argv, args, outcome, log, graph, fetches, client,
                   server, pending, results, cnt, exportVars, studyVars,
                   mode, tables, helperVars>>

StartProjectionSkipsNodes ==
    /\ pc = "start"
    /\ server' = Append(server, [op |-> "start", n |-> 0, force |-> TRUE])
    /\ pc' = "stream_edges"
    /\ pending' = 1..edge_streams
    /\ results' = <<>>
    /\ UNCHANGED <<bq_args, argv, args, outcome, log, graph, fetches, client,
                   node_streams, edge_streams, cnt, exportVars, studyVars,
                   streamVars, helperVars>>

(* 4. Begin our Graph import *)
StartProjection ==
    /\ pc = "start"
    /\ server' = Append(server, [op |-> "start", n |-> 0, force |-> TRUE])
    /\ pc' = "stream_nodes"
    /\ pending' = 1..node_streams
    /\ results' = <<>>
    /\ UNCHANGED <<bq_args, argv, args, outcome, log, graph, fetches, client,
                   node_streams, edge_streams, cnt, exportVars, studyVars, streamVars, helperVars>>

(* One task of a stage: consume_stream, then the sender *)
Task(stage, write) ==
    /\ pc = stage
    /\ \E s \in pending, r \in 0..MaxRows :
          /\ pending' = pending \ {s}
          /\ server' = Append(server, [op |-> write, n |-> r])
          /\ results' = Append(results, <<r, r * RowBytes>>)
    /\ UNCHANGED <<bq_args, argv, args, pc, outcome, log, graph, fetches,
                   client, node_streams, edge_streams, cnt, exportVars, studyVars, streamVars, helperVars>>

NodeTask == Task("stream_nodes", "write_nodes")

(* 5. reduce of the node stage (raises on an RDD without elements), then   *)
(* 5b. Assert we actually got nodes                                        *)
NodeStageEndSkipsSignal ==
    /\ pc = "stream_nodes"
    /\ pending = {}
    /\ results # <<>>
    /\ cnt' = Reduce(results)[1]
    /\ pc' = "stream_edges"
    /\ pending' = 1..edge_streams
    /\ results' = <<>>
    /\ UNCHANGED <<bq_args, argv, args, outcome, log, graph, fetches,
                   client, server, node_streams, edge_streams, exportVars, studyVars, streamVars, helperVars>>

NodeStageEnd ==
    /\ pc = "stream_nodes"
    /\ pending = {}
    /\ IF results = <<>>
       THEN /\ Raise("ValueError: Can not reduce() empty RDD")
            /\ UNCHANGED <<cnt, log>>
       ELSE /\ cnt' = Reduce(results)[1]
            /\ IF cnt' < 1
               THEN /\ log' = log \cup {"error: failed to load nodes; aborting."}
                    /\ pc' = "aborted"
                    /\ outcome' = "exit1"
               ELSE /\ pc' = "nodes_done"
                    /\ UNCHANGED <<log, outcome>>
    /\ UNCHANGED <<bq_args, argv, args, graph, fetches, client, server,
                   node_streams, edge_streams, pending, results, exportVars, studyVars, streamVars, helperVars>>

(* What the server may report as imported after `sent` rows were sent *)
Reported(sent) == {0, sent, sent + 1}

(* 6. Signal we're done with Nodes before moving onto Edges *)
NodesDone ==
    /\ pc = "nodes_done"
    /\ server' = Append(server, [op |-> "nodes_done", n |-> 0])
    /\ \E total \in Reported(cnt) :
          log' = IF cnt # total THEN log \cup {"warn: node count mismatch"}
                                ELSE log
    /\ pc' = "stream_edges"
    /\ pending' = 1..edge_streams
    /\ results' = <<>>
    /\ UNCHANGED <<bq_args, argv, args, outcome, graph, fetches, client,
                   node_streams, edge_streams, cnt, exportVars, studyVars, streamVars, helperVars>>

EdgeTask == Task("stream_edges", "write_edges")

(* 7. reduce of the edge stage *)
EdgeStageEnd ==
    /\ pc = "stream_edges"
    /\ pending = {}
    /\ IF results = <<>>
       THEN /\ Raise("ValueError: Can not reduce() empty RDD")
            /\ UNCHANGED cnt
       ELSE /\ cnt' = Reduce(results)[1]
            /\ pc' = "edges_done"
            /\ UNCHANGED outcome
    /\ UNCHANGED <<bq_args, argv, args, log, graph, fetches, client, server,
                   node_streams, edge_streams, pending, results, exportVars, studyVars, streamVars, helperVars>>

(* 8. Signal we're done with Edges; 9. completed *)
EdgesDone ==
    /\ pc = "edges_done"
    /\ server' = Append(server, [op |-> "edges_done", n |-> 0])
    /\ \E total \in Reported(cnt) :
          log' = IF cnt # total THEN log \cup {"warn: edge count mismatch"}
                                ELSE log
    /\ pc' = "done"
    /\ outcome' = "ok"
    /\ UNCHANGED <<bq_args, argv, args, graph, fetches, client,
                   node_streams, edge_streams, pending, results, cnt, exportVars, studyVars, streamVars, helperVars>>

NextImport ==
    \/ ImportParse
    \/ LoadModel
    \/ OverrideNames
    \/ ImportResolveSecret
    \/ ImportOpenClients
    \/ PrepareStreams
    \/ StartProjection
    \/ NodeTask
    \/ NodeStageEnd
    \/ NodesDone
    \/ EdgeTask
    \/ EdgeStageEnd
    \/ EdgesDone

SpecImport == InitImport /\ [][NextImport]_vars

----------------------------------------------------------------------------
(* append_batch: the generator _append_batch run by one partition.         *)
(* A partition is [input, idx, cnt, st, sink, out]: the iterable of row    *)
(* lists it was given, the position of the for loop, the running count,    *)
(* "loop" or "done", the operations its sink received, and what it yielded *)

MaxLists == 3       \* row lists in one partition's iterable
MaxListLen == 2     \* rows in one serialized row list

Rows(n) == [i \in 1..n |-> "row"]

Partition(input) ==
    [input |-> input, idx |-> 1, cnt |-> 0, st |-> "loop",
     sink |-> <<>>, out |-> <<>>]

(* for b in batch: sink.append_rows(b); cnt += len(b) *)
AppendRows(p) ==
    /\ parts[p].st = "loop"
    /\ parts[p].idx <= Len(parts[p].input)
    /\ LET b == parts[p].input[parts[p].idx]
       IN  parts' = [parts EXCEPT
               ![p].sink = Append(@, [op |-> "append_rows", rows |-> b]),
               ![p].cnt = @ + Len(b),
               ![p].idx = @ + 1]

(* after the loop: if cnt > 0: finalize_write_stream and yield *)
AppendEndAlwaysFinalizes(p) ==
    /\ parts[p].st = "loop"
    /\ parts[p].idx > Len(parts[p].input)
    /\ parts' = [parts EXCEPT
           ![p].sink = Append(@, [op |-> "finalize_write_stream", rows |-> <<>>]),
           ![p].out = Append(@, <<<<"stream", p>>, parts[p].cnt>>),
           ![p].st = "done"]

AppendEnd(p) ==
    /\ parts[p].st = "loop"
    /\ parts[p].idx > Len(parts[p].input)
    /\ IF parts[p].cnt > 0
       THEN parts' = [parts EXCEPT
               ![p].sink = Append(@, [op |-> "finalize_write_stream", rows |-> <<>>]),
               ![p].out = Append(@, <<<<"stream", p>>, parts[p].cnt>>),
               ![p].st = "done"]
       ELSE parts' = [parts EXCEPT ![p].st = "done"]

RECURSIVE SeqsUpTo(_, _)
SeqsUpTo(S, n) ==
    IF n = 0 THEN {<<>>}
    ELSE LET shorter == SeqsUpTo(S, n - 1)
         IN  shorter \cup {Append(q, x) : q \in shorter, x \in S}

RowLists == {Rows(n) : n \in 0..MaxListLen}

(* The appender alone, on any iterable of row lists *)
InitAppend ==
    /\ bq_args = <<>>
    /\ argv = <<>>
    /\ args = ExportDefaults
    /\ pc = "append"
    /\ InitJobExceptParts
    /\ parts \in {<<Partition(input)>> : input \in SeqsUpTo(RowLists, MaxLists)}

AppendTask ==
    /\ pc \in {"append", "x_append"}
    /\ \E p \in 1..Len(parts) : AppendRows(p)
    /\ UNCHANGED <<bq_args, argv, args, pc, outcome, log, jobVars, sink, plan,
                   batches, reader, studyVars, streamVars, helperVars>>

AppendTaskEnd ==
    /\ pc \in {"append", "x_append"}
    /\ \E p \in 1..Len(parts) : AppendEnd(p)
    /\ UNCHANGED <<bq_args, argv, args, pc, outcome, log, jobVars, sink, plan,
                   batches, reader, studyVars, streamVars, helperVars>>

NextAppend ==
    \/ AppendTask
    \/ AppendTaskEnd

SpecAppend == InitAppend /\ [][NextAppend]_vars

----------------------------------------------------------------------------
(* Neo4jGDSToBigQueryTemplate *)

MaxBatches == 2      \* batches the graph server yields to one read
MaxParallelism == 2  \* sc.defaultParallelism

(* str.lower on the sink modes of the model *)
Lower(m) ==
    CASE m = "Nodes" -> "nodes"
      [] m = "EDGES" -> "edges"
      [] m = "Both"  -> "both"
      [] OTHER       -> m

(* neo4j_concurrency is always given, within MaxParallelism, to keep the   *)
(* number of partitions of the append stage small (its default is 4)       *)
(* neo4j_labels and neo4j_types are always given, with different values    *)
(* (both default to ["*"]), so that the filter a run uses tells which of   *)
(* the two it took                                                         *)
ExportArgvs ==
    { a \o b \o c \o f :
        a \in Opt("bq_sink_mode", {"Nodes", "edges", "EDGES", "Both"}),
        b \in Opt("neo4j_secret", {"my-secret"}),
        c \in {<<Token("neo4j_concurrency", n)>> : n \in 1..MaxParallelism},
        f \in {<<Token("neo4j_labels", <<"Person">>),
                 Token("neo4j_types", <<"KNOWS">>)>>} }

ExportFragments == {<<>>}

InitExport ==
    /\ bq_args \in ExportFragments
    /\ argv \in ExportArgvs
    /\ args = ExportDefaults
    /\ pc = "x_parse_args"
    /\ InitJob

ExportParse ==
    /\ pc = "x_parse_args"
    /\ args' = ExportParseArgs(bq_args, argv)
    /\ pc' = "x_resolve_secret"
    /\ UNCHANGED <<bq_args, argv, outcome, log, jobVars, exportVars, studyVars, streamVars, helperVars>>

(* 1. Get the graph and database name.  2. Fetch our secret if any *)
ExportResolveSecret ==
    /\ pc = "x_resolve_secret"
    /\ graph' = <<[name |-> args.graph_name, db |-> args.neo4j_db_name]>>
    /\ FetchSecret("x_open_clients")
    /\ UNCHANGED <<bq_args, argv, outcome, client, server, node_streams,
                   edge_streams, pending, results, cnt, exportVars, studyVars, streamVars, helperVars>>

(* XXX fallback to Edge for now: the descriptor copied into the sink *)
DescriptorForCaseSensitive(sink_mode) ==
    IF sink_mode = "nodes" THEN "Node.DESCRIPTOR" ELSE "Edge.DESCRIPTOR"

DescriptorFor(sink_mode) ==
    IF Lower(sink_mode) = "nodes" THEN "Node.DESCRIPTOR" ELSE "Edge.DESCRIPTOR"

(* 3. Initialize our clients for source and sink *)
ExportOpenClients ==
    /\ pc = "x_open_clients"
    /\ client' = <<[host |-> args.neo4j_host, graph |-> graph[1].name,
                    port |-> args.neo4j_port, tls |-> args.neo4j_use_tls,
                    database |-> graph[1].db, user |-> args.neo4j_user,
                    password |-> args.neo4j_password,
                    concurrency |-> args.neo4j_concurrency]>>
    /\ sink' = <<[project |-> args.bq_project, dataset |-> args.bq_dataset,
                  table |-> args.bq_table,
                  descriptor |-> DescriptorFor(args.bq_sink_mode)]>>
    /\ pc' = "x_select_reader"
    /\ UNCHANGED <<bq_args, argv, args, outcome, log, graph, fetches, server,
                   node_streams, edge_streams, pending, results, cnt,
                   plan, batches, parts, reader, studyVars, streamVars, helperVars>>

(* properties is None or [""] or ["null"]: no property filter *)
NormalizeProperties(props) ==
    IF props = <<"">> \/ props = <<"null">> THEN <<>> ELSE props

(* The reader, converter and filters for the sink mode; <<>> when the mode *)
(* is neither "nodes" nor "edges" (ValueError)                             *)
ReaderForFallsBackToEdges(a) ==
    IF Lower(a.bq_sink_mode) = "nodes"
    THEN <<[reader |-> "read_nodes", converter |-> "arrow_to_nodes",
            topo_filters |-> a.neo4j_labels,
            properties |-> NormalizeProperties(a.neo4j_properties)]>>
    ELSE <<[reader |-> "read_edges", converter |-> "arrow_to_edges",
            topo_filters |-> a.neo4j_types,
            properties |-> NormalizeProperties(a.neo4j_properties)]>>

ReaderFor(a) ==
    IF Lower(a.bq_sink_mode) = "nodes"
    THEN <<[reader |-> "read_nodes", converter |-> "arrow_to_nodes",
            topo_filters |-> a.neo4j_labels,
            properties |-> NormalizeProperties(a.neo4j_properties)]>>
    ELSE IF Lower(a.bq_sink_mode) = "edges"
    THEN <<[reader |-> "read_edges", converter |-> "arrow_to_edges",
            topo_filters |-> a.neo4j_types,
            properties |-> NormalizeProperties(a.neo4j_properties)]>>
    ELSE <<>>

ExportSelectReader ==
    /\ pc = "x_select_reader"
    /\ LET r == ReaderFor(args)
       IN  IF r = <<>>
           THEN /\ Raise("ValueError: invalid sink mode")
                /\ UNCHANGED plan
           ELSE /\ plan' = r
                /\ pc' = "x_read"
                /\ UNCHANGED outcome
    /\ UNCHANGED <<bq_args, argv, args, log, jobVars, sink, batches, parts,
                   reader, studyVars, streamVars, helperVars>>

ReadBatchWhileAppending ==
    /\ pc \in {"x_read", "x_append"}
    /\ Len(batches) < MaxBatches
    /\ \E n \in 0..MaxRows :
          /\ batches' = Append(batches, Rows(n))
          /\ reader' = ReaderLoop(reader, n, n * RowBytes)
          /\ server' = Append(server, [op |-> plan[1].reader, n |-> n])
    /\ UNCHANGED <<bq_args, argv, args, pc, outcome, log, graph, fetches,
                   client, node_streams, edge_streams, pending, results, cnt,
                   sink, plan, parts, studyVars, streamVars, helperVars>>

(* _read_nodes / _read_edges: one batch received from the graph server *)
ReadBatch ==
    /\ pc = "x_read"
    /\ Len(batches) < MaxBatches
    /\ \E n \in 0..MaxRows :
          /\ batches' = Append(batches, Rows(n))
          /\ reader' = ReaderLoop(reader, n, n * RowBytes)
          /\ server' = Append(server, [op |-> plan[1].reader, n |-> n])
    /\ UNCHANGED <<bq_args, argv, args, pc, outcome, log, graph, fetches,
                   client, node_streams, edge_streams, pending, results, cnt,
                   sink, plan, parts, studyVars, streamVars, helperVars>>

(* batch_converter: every graph element of the batch, serialized *)
batch_converter(arrow) == [i \in 1..Len(arrow) |-> "bytes"]

(* The batches a repartition `to` (batch index -> partition) gives to p,   *)
(* converted, in the order read                                            *)
RECURSIVE Share(_, _, _, _)
Share(bs, to, p, i) ==
    IF i > Len(bs) THEN <<>>
    ELSE (IF to[i] = p THEN <<batch_converter(bs[i])>> ELSE <<>>)
         \o Share(bs, to, p, i + 1)

Max(a, b) == IF a > b THEN a ELSE b

(* The reader returns its list; repartition(num_partitions) spreads it and *)
(* the append stage starts                                                 *)
Repartition ==
    /\ pc = "x_read"
    /\ \E dp \in 1..MaxParallelism :
         LET num_partitions == Max(dp, args.neo4j_concurrency)
         IN  \E to \in [1..Len(batches) -> 1..num_partitions] :
                parts' = [p \in 1..num_partitions |->
                             Partition(Share(batches, to, p, 1))]
    /\ reader' = ReaderEnd(reader)
    /\ pc' = "x_append"
    /\ UNCHANGED <<bq_args, argv, args, outcome, log, jobVars, sink, plan,
                   batches, studyVars, streamVars, helperVars>>

RECURSIVE Collected(_, _)
Collected(ps, p) ==
    IF p > Len(ps) THEN <<>> ELSE ps[p].out \o Collected(ps, p + 1)

SumCountsCountsResults(rs) == Len(rs)

RECURSIVE SumCounts(_)
SumCounts(rs) == IF rs = <<>> THEN 0 ELSE Head(rs)[2] + SumCounts(Tail(rs))

CollectExitsOnZero ==
    /\ pc = "x_append"
    /\ \A p \in 1..Len(parts) : parts[p].st = "done"
    /\ results' = Collected(parts, 1)
    /\ cnt' = SumCounts(results')
    /\ log' = log \cup {IF cnt' < 1 THEN "error: failed to send rows; aborting."
                                   ELSE "info: sent rows to BigQuery"}
    /\ pc' = IF cnt' < 1 THEN "aborted" ELSE "done"
    /\ outcome' = IF cnt' < 1 THEN "exit1" ELSE "ok"
    /\ UNCHANGED <<bq_args, argv, args, graph, fetches, client, server,
                   node_streams, edge_streams, pending, exportVars, studyVars, streamVars, helperVars>>

(* collect() returns when every partition is done; the driver reports *)
Collect ==
    /\ pc = "x_append"
    /\ \A p \in 1..Len(parts) : parts[p].st = "done"
    /\ results' = Collected(parts, 1)
    /\ cnt' = SumCounts(results')
    /\ log' = log \cup {"info: sent rows to BigQuery"}
    /\ pc' = "done"
    /\ outcome' = "ok"
    /\ UNCHANGED <<bq_args, argv, args, graph, fetches, client, server,
                   node_streams, edge_streams, pending, exportVars, studyVars, streamVars, helperVars>>

NextExport ==
    \/ ExportParse
    \/ ExportResolveSecret
    \/ ExportOpenClients
    \/ ExportSelectReader
    \/ ReadBatch
    \/ Repartition
    \/ AppendTask
    \/ AppendTaskEnd
    \/ Collect

SpecExport == InitExport /\ [][NextExport]_vars

----------------------------------------------------------------------------
(* The reader alone, on a stream of up to StreamTotal rows split into      *)
(* batches of the sizes below                                              *)

MaxReads == 5        \* batches in one stream
StreamTotal == 5 * 50000

BatchSizes == {1, 49999, 50000, 100000, 100001, 150000, StreamTotal}

InitReader ==
    /\ bq_args = <<>>
    /\ argv = <<>>
    /\ args = ExportDefaults
    /\ pc = "reading"
    /\ InitJob

StreamBatch ==
    /\ pc = "reading"
    /\ reader.summary = <<>>
    /\ Len(reader.rows) < MaxReads
    /\ \E n \in BatchSizes :
          /\ reader.cnt + n <= StreamTotal
          /\ reader' = ReaderLoop(reader, n, n * RowBytes)
    /\ UNCHANGED <<bq_args, argv, args, pc, outcome, log, jobVars, sink, plan,
                   batches, parts, studyVars, streamVars, helperVars>>

StreamEnd ==
    /\ pc = "reading"
    /\ reader.summary = <<>>
    /\ reader' = ReaderEnd(reader)
    /\ UNCHANGED <<bq_args, argv, args, pc, outcome, log, jobVars, sink, plan,
                   batches, parts, studyVars, streamVars, helperVars>>

NextReader ==
    \/ StreamBatch
    \/ StreamEnd

SpecReader == InitReader /\ [][NextReader]_vars

----------------------------------------------------------------------------
(* to_stream_fn alone: the factory is called with a mode, a source client  *)
(* and a graph model, and the function it returns is mapped over a list of *)
(* table names                                                             *)

MaxTables == 2      \* table names the returned function is mapped over

StreamModes == {"node", "edge", "nodes"}
TableNames == {"t1", "t2"}

NodeMappings ==
    {[source |-> "t1", properties |-> ps, key_field |-> k, label_field |-> l] :
        ps \in {<<>>, <<"id">>, <<"p", "q">>}, k \in {"", "id"},
        l \in {None, "lbl"}}

EdgeMappings ==
    {[source |-> t, properties |-> ps, source_field |-> sf,
      target_field |-> tf, type_field |-> ty] :
        t \in TableNames, ps \in {<<>>, <<"w">>}, sf \in {"", "src"},
        tf \in {"", "dst"}, ty \in {None, "typ"}}

StreamModels ==
    {[name |-> "g", db |-> "db", content |-> "study", nodes |-> ns, edges |-> es] :
        ns \in {<<>>} \cup {<<n>> : n \in NodeMappings},
        es \in {<<>>} \cup {<<e>> : e \in EdgeMappings}}

InitStreams ==
    /\ bq_args = <<>>
    /\ argv = <<>>
    /\ args = ImportDefaults
    /\ pc = "to_stream_fn"
    /\ outcome = "running"
    /\ log = {}
    /\ graph \in {<<g>> : g \in StreamModels}
    /\ fetches = <<>>
    /\ client = <<>>
    /\ server = <<>>
    /\ node_streams = 0
    /\ edge_streams = 0
    /\ pending = {}
    /\ results = <<>>
    /\ cnt = -1
    /\ sink = <<>>
    /\ plan = <<>>
    /\ batches = <<>>
    /\ parts = <<>>
    /\ reader = ReaderStart
    /\ imp_ns = <<>>
    /\ exp_ns = <<>>
    /\ mode \in StreamModes
    /\ tables \in SeqsUpTo(TableNames, MaxTables)
    /\ calls = 0
    /\ requests = <<>>
    /\ partials = <<>>
    /\ lists = <<>>
    /\ flat = <<>>

(* to_stream_fn(mode, bq, graph): defines _to_stream and returns it *)
MakeStreamFn ==
    /\ pc = "to_stream_fn"
    /\ pc' = "map"
    /\ UNCHANGED <<bq_args, argv, args, outcome, log, jobVars, exportVars,
                   studyVars, streamVars, helperVars>>

(* one call _to_stream(table_name) of the map over the table names *)
ApplyToStream ==
    /\ pc = "map"
    /\ tables # <<>>
    /\ calls' = calls + 1
    /\ LET r == to_stream(mode, graph[1], Head(tables))
       IN  IF r.raised
           THEN /\ Raise(InvalidMode)
                /\ UNCHANGED <<tables, requests>>
           ELSE /\ requests' = Append(requests, [table |-> Head(tables),
                                                 fields |-> r.fields])
                /\ tables' = Tail(tables)
                /\ UNCHANGED <<pc, outcome>>
    /\ UNCHANGED <<bq_args, argv, args, log, jobVars, exportVars, studyVars,
                   mode, helperVars>>

(* the map is exhausted *)
MapEnd ==
    /\ pc = "map"
    /\ tables = <<>>
    /\ pc' = "done"
    /\ outcome' = "ok"
    /\ UNCHANGED <<bq_args, argv, args, log, jobVars, exportVars, studyVars,
                   streamVars, helperVars>>

NextStreams ==
    \/ MakeStreamFn
    \/ ApplyToStream
    \/ MapEnd

SpecStreams == InitStreams /\ [][NextStreams]_vars

----------------------------------------------------------------------------
(* reduce(tuple_sum) alone: the (rows, bytes) results of a stage's tasks   *)
(* are combined two at a time, in whatever order and grouping the          *)
(* partitions and the driver happen to take them                           *)

MaxPairs == 3       \* task results given to one reduce

PairValues == {<<0, 0>>, <<1, 2>>, <<2, 1>>, <<-1, 3>>}

InitReduce ==
    /\ bq_args = <<>>
    /\ argv = <<>>
    /\ args = ImportDefaults
    /\ pc = "reduce"
    /\ outcome = "running"
    /\ log = {}
    /\ graph = <<>>
    /\ fetches = <<>>
    /\ client = <<>>
    /\ server = <<>>
    /\ node_streams = 0
    /\ edge_streams = 0
    /\ pending = {}
    /\ results \in SeqsUpTo(PairValues, MaxPairs) \ {<<>>}
    /\ cnt = -1
    /\ sink = <<>>
    /\ plan = <<>>
    /\ batches = <<>>
    /\ parts = <<>>
    /\ reader = ReaderStart
    /\ imp_ns = <<>>
    /\ exp_ns = <<>>
    /\ mode = None
    /\ tables = <<>>
    /\ calls = 0
    /\ requests = <<>>
    /\ partials = results
    /\ lists = <<>>
    /\ flat = <<>>

(* q without its elements at positions i and j *)
Without(q, i, j) ==
    LET keep == {k \in 1..Len(q) : k # i /\ k # j}
        F[k \in 0..Len(q)] ==
            IF k = 0 THEN <<>>
            ELSE IF k \in keep THEN Append(F[k - 1], q[k]) ELSE F[k - 1]
    IN  F[Len(q)]

(* one application tuple_sum(a, b) of the reduce, on any two partial results *)
Combine ==
    /\ pc = "reduce"
    /\ \E i, j \in 1..Len(partials) :
          /\ i # j
          /\ partials' = Append(Without(partials, i, j),
                                tuple_sum(partials[i], partials[j]))
    /\ UNCHANGED <<bq_args, argv, args, pc, outcome, log, jobVars, exportVars,
                   studyVars, streamVars, lists, flat>>

(* cnt, size = ...reduce(tuple_sum) *)
ReduceEnd ==
    /\ pc = "reduce"
    /\ Len(partials) = 1
    /\ cnt' = partials[1][1]
    /\ pc' = "done"
    /\ UNCHANGED <<bq_args, argv, args, outcome, log, graph, fetches, client,
                   server, node_streams, edge_streams, pending, results,
                   exportVars, studyVars, streamVars, helperVars>>

NextReduce ==
    \/ Combine
    \/ ReduceEnd

SpecReduce == InitReduce /\ [][NextReduce]_vars

----------------------------------------------------------------------------
(* flatten alone, with the default fn *)

FlatElements == {1, 2}

InitFlatten ==
    /\ bq_args = <<>>
    /\ argv = <<>>
    /\ args = ImportDefaults
    /\ pc = "flatten"
    /\ outcome = "running"
    /\ log = {}
    /\ graph = <<>>
    /\ fetches = <<>>
    /\ client = <<>>
    /\ server = <<>>
    /\ node_streams = 0
    /\ edge_streams = 0
    /\ pending = {}
    /\ results = <<>>
    /\ cnt = -1
    /\ sink = <<>>
    /\ plan = <<>>
    /\ batches = <<>>
    /\ parts = <<>>
    /\ reader = ReaderStart
    /\ imp_ns = <<>>
    /\ exp_ns = <<>>
    /\ mode = None
    /\ tables = <<>>
    /\ calls = 0
    /\ requests = <<>>
    /\ partials = <<>>
    /\ lists \in SeqsUpTo(SeqsUpTo(FlatElements, MaxListLen), MaxLists)
    /\ flat = <<>>

Flatten ==
    /\ pc = "flatten"
    /\ flat' = flatten(lists)
    /\ pc' = "done"
    /\ UNCHANGED <<bq_args, argv, args, outcome, log, jobVars, exportVars,
                   studyVars, streamVars, partials, lists>>

NextFlatten == Flatten

SpecFlatten == InitFlatten /\ [][NextFlatten]_vars

----------------------------------------------------------------------------
(* Both jobs *)

InitJobs == InitImport \/ InitExport

NextJobs == NextImport \/ NextExport

SpecJobs == InitJobs /\ [][NextJobs]_vars

----------------------------------------------------------------------------
(* The two parse_args on the same fragments and arguments *)

StudyTokens ==
    {Token(k, v) : k \in {"neo4j_host", "neo4j_user", "graph_uri"},
                   v \in {"a", "b"}}

InitArgs ==
    /\ bq_args \in SeqsUpTo(StudyTokens, MaxTokens)
    /\ argv \in SeqsUpTo(StudyTokens, MaxTokens)
    /\ args = ImportDefaults
    /\ pc = "study"
    /\ InitJob

StudyImportParse ==
    /\ pc = "study"
    /\ imp_ns = <<>>
    /\ imp_ns' = <<ImportParseArgs(bq_args, argv)>>
    /\ UNCHANGED <<bq_args, argv, args, pc, outcome, log, jobVars, exportVars,
                   exp_ns, streamVars, helperVars>>

StudyExportParse ==
    /\ pc = "study"
    /\ exp_ns = <<>>
    /\ exp_ns' = <<ExportParseArgs(bq_args, argv)>>
    /\ UNCHANGED <<bq_args, argv, args, pc, outcome, log, jobVars, exportVars,
                   imp_ns, streamVars, helperVars>>

NextArgs ==
    \/ StudyImportParse
    \/ StudyExportParse

SpecArgs == InitArgs /\ [][NextArgs]_vars

----------------------------------------------------------------------------
(* Properties *)

OpsAt(o) == {i \in 1..Len(server) : server[i].op = o}

IsExport == "bq_sink_mode" \in DOMAIN args

(* The configuration parse_args returned, whatever was merged into it later *)
Parsed ==
    IF IsExport THEN ExportParseArgs(bq_args, argv)
                ELSE ImportParseArgs(bq_args, argv)

(* The node stage of the import has run and its reduce has returned or raised *)
NodePhaseEnded == HasOp("start") /\ pc # "stream_nodes"

(* The edge stage of the import has run and its reduce has returned or raised *)
EdgePhaseEnded == HasOp("nodes_done") /\ pc # "stream_edges"

(* C1: in the import job no write_edges reaches the graph server before    *)
(* nodes_done has been called and has returned, whatever the interleaving  *)
(* of the tasks of the node and edge stages.                               *)
C1_EdgesAfterNodesDone ==
    /\ \A i \in OpsAt("write_edges") : \E j \in OpsAt("nodes_done") : j < i
    /\ pc \in {"stream_nodes", "nodes_done"} => OpsAt("write_edges") = {}

C1_Witness ==
    /\ Cardinality(OpsAt("write_nodes")) >= 2
    /\ Cardinality(OpsAt("write_edges")) >= 2
    /\ HasOp("edges_done")

(* C2 (as claimed): whenever the node phase of the import job has sent 0   *)
(* rows in total, the job logs an error, the process exits with code 1 and *)
(* no edge batch is ever written.                                          *)
C2_ZeroNodesExitsOne ==
    (NodePhaseEnded /\ RowsOf(server, "write_nodes") = 0)
        => /\ "error: failed to load nodes; aborting." \in log
           /\ outcome = "exit1"
           /\ OpsAt("write_edges") = {}

(* C3 (as claimed): a disagreement between the rows sent and the count the *)
(* graph server reports never aborts the import: after a node mismatch the *)
(* run still reaches edges_done, after an edge mismatch it completes       *)
(* normally, and a zero edge count does not abort.                         *)
C3_CountsNeverAbortButZeroNodes ==
    /\ ("warn: node count mismatch" \in log /\ pc \in {"aborted", "done"})
           => HasOp("edges_done")
    /\ "warn: edge count mismatch" \in log => (pc = "done" /\ outcome = "ok")
    /\ (EdgePhaseEnded /\ RowsOf(server, "write_edges") = 0) => pc # "aborted"

(* C4 (as claimed): model resolution succeeds exactly when exactly one of  *)
(* the inline JSON model and the JSON-URI is supplied and that source      *)
(* loads.                                                                  *)
ModelDecided == ~IsExport /\ pc \notin {"parse_args", "load_model", "study", "append"}

C4_ExactlyOneSource ==
    ModelDecided =>
        LET j == Parsed.graph_json
            u == Parsed.graph_uri
        IN  (graph # <<>>) <=>
               \/ (Truthy(j) /\ ~Truthy(u) /\ from_json(j) # <<>>)
               \/ (~Truthy(j) /\ Truthy(u) /\ load_model_from_gcs(u) # <<>>)

(* C4 (amended): model resolution succeeds exactly when a non-empty inline *)
(* JSON model is supplied and parses, or no non-empty inline model is      *)
(* supplied and a non-empty JSON-URI is supplied whose remote load returns *)
(* a model; with both supplied the inline model is used and the URI is     *)
(* ignored.  With neither it fails with the missing-input error, with only *)
(* the URI and an absent load with the load error, and in every failing    *)
(* case the job aborts before a secret is fetched, a client is opened or a *)
(* projection is started.                                                  *)
C4_InlineElseUri ==
    ModelDecided =>
        LET j == Parsed.graph_json
            u == Parsed.graph_uri
        IN  /\ (graph # <<>>) <=>
                  \/ (Truthy(j) /\ from_json(j) # <<>>)
                  \/ (~Truthy(j) /\ Truthy(u) /\ load_model_from_gcs(u) # <<>>)
            /\ (Truthy(j) /\ graph # <<>>) => graph[1].content = "inline"
            /\ (~Truthy(j) /\ ~Truthy(u)) =>
                  outcome = "ValueError: missing graph data model uri or literal JSON"
            /\ (~Truthy(j) /\ Truthy(u) /\ load_model_from_gcs(u) = <<>>) =>
                  outcome = "ValueError: failed to load graph"
            /\ graph = <<>> =>
                  /\ pc = "aborted"
                  /\ fetches = <<>>
                  /\ client = <<>>
                  /\ server = <<>>

C4_Witness ==
    /\ ModelDecided
    /\ Truthy(Parsed.graph_json)
    /\ Truthy(Parsed.graph_uri)
    /\ load_model_from_gcs(Parsed.graph_uri) = <<>>
    /\ graph # <<>>
    /\ graph[1].content = "inline"
    /\ HasOp("start")

(* The sink mode given to the export job is neither "nodes" nor "edges"    *)
(* after lower-casing                                                      *)
UnrecognizedMode ==
    /\ IsExport
    /\ pc # "x_parse_args"
    /\ Lower(args.bq_sink_mode) \notin {"nodes", "edges"}

ReaderChosen ==
    pc \notin {"x_parse_args", "x_resolve_secret", "x_open_clients", "x_select_reader"}

(* C5 (as claimed): an unrecognized sink mode is treated as edges: the     *)
(* edge descriptor is selected and the run proceeds to read and export     *)
(* relationships; it is not rejected.                                      *)
C5_UnrecognizedModeRunsAsEdges ==
    (UnrecognizedMode /\ ReaderChosen) =>
        /\ sink[1].descriptor = "Edge.DESCRIPTOR"
        /\ pc # "aborted"
        /\ plan # <<>>
        /\ plan[1].reader = "read_edges"

(* C5 (amended): for an unrecognized sink mode the edge descriptor is      *)
(* selected and the sink is created with it, and the run is then rejected  *)
(* with the invalid-sink-mode error before anything is read from the graph *)
(* server: no reader is chosen, nothing is read and nothing is appended.   *)
C5_UnrecognizedModeRejected ==
    UnrecognizedMode =>
        /\ sink # <<>> => sink[1].descriptor = "Edge.DESCRIPTOR"
        /\ pc \in {"x_resolve_secret", "x_open_clients", "x_select_reader", "aborted"}
        /\ pc = "aborted" =>
              /\ outcome = "ValueError: invalid sink mode"
              /\ sink # <<>>
        /\ plan = <<>>
        /\ server = <<>>
        /\ batches = <<>>
        /\ parts = <<>>

C5_Witness ==
    /\ UnrecognizedMode
    /\ pc = "aborted"
    /\ sink # <<>>
    /\ sink[1].descriptor = "Edge.DESCRIPTOR"

FailedFetches == {i \in 1..Len(fetches) : fetches[i].result = <<>>}

(* C6: in both jobs, when the secret fetch returns the absent result, a    *)
(* warning is logged, the configuration mapping is exactly what parse_args *)
(* returned (no key added, removed or changed), and the job goes on to     *)
(* client setup, which binds the argument-supplied values.                 *)
C6_FailedFetchKeepsConfig ==
    FailedFetches # {} =>
        /\ "warn: failed to fetch secret" \in log
        /\ args = Parsed
        /\ pc \in {"open_clients", "x_open_clients"} \/ client # <<>>
        /\ client # <<>> =>
              /\ client[1].host = Parsed.neo4j_host
              /\ client[1].user = Parsed.neo4j_user
              /\ client[1].password = Parsed.neo4j_password

C6_Witness ==
    /\ FailedFetches # {}
    /\ ~IsExport
    /\ Parsed.neo4j_secret # None
    /\ client # <<>>
    /\ HasOp("start")

(* C7 (as claimed): in both jobs, in a run whose configuration came from   *)
(* parse_args with no secret name supplied, no secret fetch is attempted   *)
(* and no secret-failure warning is logged.                                *)
C7_NoSecretNameNoFetch ==
    (pc \notin {"parse_args", "x_parse_args"} /\ Parsed.neo4j_secret = None)
        => /\ fetches = <<>>
           /\ "warn: failed to fetch secret" \notin log

Keys(tokens) == {tokens[i].k : i \in 1..Len(tokens)}

(* argparse keeps the last value given for an option *)
RECURSIVE LastValue(_, _)
LastValue(tokens, k) ==
    IF tokens[Len(tokens)].k = k THEN tokens[Len(tokens)].v
    ELSE LastValue(SubSeq(tokens, 1, Len(tokens) - 1), k)

SharedKeys == (DOMAIN ImportDefaults) \cap (DOMAIN ExportDefaults)

Conflicting(k) ==
    /\ k \in Keys(bq_args) \cap Keys(argv)
    /\ LastValue(bq_args, k) # LastValue(argv, k)

(* C8 (as claimed): in both parse_args, a parameter given in the           *)
(* environment fragments and, with a different value, in the explicit      *)
(* arguments has the fragments' value in the parsed configuration.         *)
C8_FragmentsWin ==
    \A k \in SharedKeys :
        Conflicting(k) =>
            /\ imp_ns # <<>> => imp_ns[1][k] = LastValue(bq_args, k)
            /\ exp_ns # <<>> => exp_ns[1][k] = LastValue(bq_args, k)

(* C9 (as claimed): with fragments present, a parameter supplied only in   *)
(* the explicit arguments still takes effect in either job, and the two    *)
(* jobs parse the parameters they share to the same values.                *)
C9_SameFragmentRule ==
    /\ \A k \in SharedKeys :
          (bq_args # <<>> /\ k \in Keys(argv) \ Keys(bq_args)) =>
              /\ imp_ns # <<>> => imp_ns[1][k] = LastValue(argv, k)
              /\ exp_ns # <<>> => exp_ns[1][k] = LastValue(argv, k)
    /\ (imp_ns # <<>> /\ exp_ns # <<>>) =>
          \A k \in SharedKeys : imp_ns[1][k] = exp_ns[1][k]

RECURSIVE TotalRows(_)
TotalRows(ls) ==
    IF ls = <<>> THEN 0 ELSE Len(Head(ls)) + TotalRows(Tail(ls))

Finalizes(p) ==
    {i \in 1..Len(parts[p].sink) : parts[p].sink[i].op = "finalize_write_stream"}

(* C10: for any iterable of row lists given to _append_batch: when the     *)
(* total number of rows is 0 the write stream is never finalized and       *)
(* nothing is yielded; when it is k > 0, finalize is called exactly once,  *)
(* after every list has been appended in order, no append follows it, and  *)
(* exactly one result (stream_name, k) is yielded.                         *)
C10_AppendBatchContract ==
    \A p \in 1..Len(parts) :
        LET P == parts[p]
            k == TotalRows(P.input)
            appended == [i \in 1..Len(P.input) |->
                            [op |-> "append_rows", rows |-> P.input[i]]]
            finalize == [op |-> "finalize_write_stream", rows |-> <<>>]
        IN  /\ k = 0 => (Finalizes(p) = {} /\ P.out = <<>>)
            /\ Finalizes(p) # {} => P.sink = Append(appended, finalize)
            /\ P.out # <<>> => (Finalizes(p) # {} /\ P.out = << <<<<"stream", p>>, k>> >>)
            /\ (P.st = "done" /\ k > 0) =>
                  /\ P.sink = Append(appended, finalize)
                  /\ P.out = << <<<<"stream", p>>, k>> >>
            /\ (P.st = "done" /\ k = 0) => P.sink = appended

C10_Witness ==
    /\ pc = "append"
    /\ parts[1].st = "done"
    /\ Len(parts[1].input) = 3
    /\ parts[1].input[2] = <<>>
    /\ TotalRows(parts[1].input) = 3
    /\ Cardinality(Finalizes(1)) = 1


RECURSIVE SumN(_)
SumN(ps) == IF ps = <<>> THEN 0 ELSE Head(ps).n + SumN(Tail(ps))

StreamedAll == reader.summary # <<>> /\ reader.cnt = StreamTotal

(* C11 (as claimed): streaming exactly 250,000 rows, however they are      *)
(* split into batches, emits the progress line exactly twice, at 100,000   *)
(* and at 200,000 cumulative rows.                                         *)
C11_ProgressTwiceAtMultiples ==
    StreamedAll =>
        /\ Len(reader.progress) = 2
        /\ reader.progress[1].at = ProgressEvery
        /\ reader.progress[2].at = 2 * ProgressEvery

(* C11 (amended): the readers emit a progress line after a batch exactly   *)
(* when the rows read since the last progress line (or the start) exceed   *)
(* 100,000, and then restart that count from zero: every progress line     *)
(* reports more than 100,000 rows, the rows not yet reported never exceed  *)
(* 100,000, and streaming exactly 250,000 rows emits at most two progress  *)
(* lines (how many, and at which cumulative counts, depends on the split   *)
(* into batches); the rows read after the last progress line appear only   *)
(* in the final summary line, which reports all 250,000.                   *)
C11_ProgressAboveThreshold ==
    /\ \A i \in 1..Len(reader.progress) : reader.progress[i].n > ProgressEvery
    /\ reader.log_cnt <= ProgressEvery
    /\ reader.cnt = SumN(reader.progress) + reader.log_cnt
    /\ StreamedAll =>
          /\ Len(reader.progress) <= 2
          /\ reader.summary[1].cnt = StreamTotal

C11_Witness ==
    /\ StreamedAll
    /\ reader.rows = <<50000, 50000, 50000, 50000, 50000>>
    /\ Len(reader.progress) = 1
    /\ reader.progress[1].at = 150000
    /\ reader.log_cnt = 100000


RECURSIVE AppendedRows(_)
AppendedRows(ops) ==
    IF ops = <<>> THEN 0 ELSE Len(Head(ops).rows) + AppendedRows(Tail(ops))

RECURSIVE AppendedOverall(_, _)
AppendedOverall(ps, p) ==
    IF p > Len(ps) THEN 0
    ELSE AppendedRows(ps[p].sink) + AppendedOverall(ps, p + 1)

StreamNames == {results[i][1] : i \in 1..Len(results)}

(* C12: in the export job, for every distribution of the read batches over *)
(* the partitions and every interleaving of the partitions, the total the  *)
(* driver reports is the number of rows appended to the sink over all      *)
(* partitions (which is the number of rows read), and the collected        *)
(* results hold exactly one stream name for each partition that received   *)
(* at least one row and none for a partition that received no rows.        *)
C12_ReportedTotalAndStreams ==
    (IsExport /\ pc = "done") =>
        /\ cnt = AppendedOverall(parts, 1)
        /\ cnt = reader.cnt
        /\ Len(results) = Cardinality(StreamNames)
        /\ \A p \in 1..Len(parts) :
              (TotalRows(parts[p].input) > 0) <=> (<<"stream", p>> \in StreamNames)
        /\ \A i \in 1..Len(results) :
              /\ results[i][1][2] \in 1..Len(parts)
              /\ results[i][2] = TotalRows(parts[results[i][1][2]].input)

C12_Witness ==
    /\ IsExport
    /\ pc = "done"
    /\ plan[1].reader = "read_edges"
    /\ Len(batches) = 2
    /\ cnt = 2
    /\ Len(parts) = 2
    /\ TotalRows(parts[1].input) = 0
    /\ StreamNames = {<<"stream", 2>>}


NoRowsRead == IsExport /\ reader.summary = <<[cnt |-> 0, sz |-> 0]>>

(* C13: in the export job, when the graph server returns no rows, nothing  *)
(* is appended to the warehouse, the job neither raises nor exits: once    *)
(* every partition is finished the report step is enabled, and the run     *)
(* ends normally with a reported total of zero rows and no stream.         *)
C13_ZeroRowsCompletes ==
    NoRowsRead =>
        /\ pc # "aborted"
        /\ outcome \in {"running", "ok"}
        /\ AppendedOverall(parts, 1) = 0
        /\ (pc = "x_append" /\ \A p \in 1..Len(parts) : parts[p].st = "done")
              => ENABLED Collect
        /\ pc = "done" =>
              /\ outcome = "ok"
              /\ cnt = 0
              /\ results = <<>>
              /\ "info: sent rows to BigQuery" \in log

C13_Witness ==
    /\ NoRowsRead
    /\ pc = "done"
    /\ Len(batches) = 2
    /\ Len(parts) = 2
    /\ cnt = 0
    /\ outcome = "ok"


Range(q) == {q[i] : i \in 1..Len(q)}

Set(f) == IF Truthy(f) THEN {f} ELSE {}

Mapped(mappings, table_name) ==
    {mappings[i] : i \in {k \in 1..Len(mappings) : mappings[k].source = table_name}}

(* The field set the claim gives for a table of the model in a mode *)
Projection(m, g, table_name) ==
    IF m = "node"
    THEN UNION {Range(n.properties) \cup Set(n.key_field) \cup Set(n.label_field) :
                  n \in Mapped(g.nodes, table_name)}
    ELSE UNION {Range(e.properties) \cup Set(e.source_field)
                  \cup Set(e.target_field) \cup Set(e.type_field) :
                  e \in Mapped(g.edges, table_name)}

(* C14: for every table name and graph model, each call of the function    *)
(* returned by to_stream_fn in mode "node" or "edge" asks the source for a  *)
(* projection whose field set is the mapped node's property keys plus its   *)
(* key and label fields when set, resp. the mapped edge's property keys     *)
(* plus its source, target and type fields when set, and for the empty      *)
(* projection, without raising, when the model has no mapping of that mode  *)
(* for the table.                                                          *)
C14_ProjectionFields ==
    (pc \in {"map", "done", "aborted"} /\ mode \in {"node", "edge"}) =>
        /\ pc # "aborted"
        /\ Len(requests) = calls
        /\ \A i \in 1..Len(requests) :
              /\ Range(requests[i].fields) = Projection(mode, graph[1], requests[i].table)
              /\ Mapped(IF mode = "node" THEN graph[1].nodes ELSE graph[1].edges,
                        requests[i].table) = {}
                    => requests[i].fields = <<>>

C14_Witness ==
    /\ pc = "done"
    /\ mode = "edge"
    /\ graph[1].nodes # <<>>
    /\ Len(requests) = 2
    /\ requests[1].table = "t1"
    /\ requests[1].fields = <<>>
    /\ requests[2].table = "t2"
    /\ requests[2].fields = <<"w", "src", "typ">>


(* C15: calling to_stream_fn with a mode other than "node" or "edge" fails *)
(* with the invalid-mode error, and no projection is requested from the    *)
(* source for that mode.                                                   *)
C15_InvalidModeFailsAtFactory ==
    (mode \notin {"node", "edge"} /\ pc \in {"map", "done", "aborted"}) =>
        /\ outcome = InvalidMode
        /\ requests = <<>>


(* The tokens parse_args of the import job parsed *)
ImportTokens == IF bq_args # <<>> THEN bq_args ELSE argv

Overridden == ~IsExport /\ graph # <<>> /\ pc \notin {"parse_args", "load_model", "override"}

(* The name the loaded model defines *)
ModelName ==
    IF graph[1].content = "inline" THEN from_json("{model}")[1].name
                                   ELSE load_model_from_gcs("gs://ok")[1].name

(* C16: in an import run configured by parse_args without a graph-name     *)
(* argument, the graph keeps the name the loaded model defines and the     *)
(* graph-server client is bound to that name.                              *)
C16_NoGraphNameKeepsModelName ==
    (Overridden /\ "graph_name" \notin Keys(ImportTokens)) =>
        /\ graph[1].name = ModelName
        /\ client # <<>> => client[1].graph = ModelName


RECURSIVE SumAt(_, _)
SumAt(q, c) == IF q = <<>> THEN 0 ELSE Head(q)[c] + SumAt(Tail(q), c)

(* C17: tuple_sum is commutative and associative on the pairs it is given, *)
(* and however a non-empty list of (rows, bytes) pairs is folded with it,  *)
(* in any order and any grouping, the partial results always add up to,    *)
(* and the final result is, (sum of all rows, sum of all bytes).           *)
C17_TupleSumFold ==
    pc \in {"reduce", "done"} /\ partials # <<>> =>
        /\ \A i, j \in 1..Len(results) :
              tuple_sum(results[i], results[j]) = tuple_sum(results[j], results[i])
        /\ \A i, j, k \in 1..Len(results) :
              tuple_sum(tuple_sum(results[i], results[j]), results[k])
                 = tuple_sum(results[i], tuple_sum(results[j], results[k]))
        /\ SumAt(partials, 1) = SumAt(results, 1)
        /\ SumAt(partials, 2) = SumAt(results, 2)
        /\ Len(partials) = 1 =>
              partials[1] = <<SumAt(results, 1), SumAt(results, 2)>>
        /\ pc = "done" => cnt = SumAt(results, 1)

C17_Witness ==
    /\ pc = "done"
    /\ results = << <<1, 2>>, <<-1, 3>>, <<2, 1>> >>
    /\ partials = << <<2, 6>> >>
    /\ cnt = 2

Offset(i) == TotalRows(SubSeq(lists, 1, i - 1))

(* C18: flatten with the default transform returns the concatenation of    *)
(* the sub-lists in input order: its length is the total length of the     *)
(* sub-lists and the j-th element of the i-th sub-list is at position      *)
(* (total length of the sub-lists before i) + j, so every element appears  *)
(* exactly once and an empty sub-list contributes nothing.                 *)
C18_FlattenConcatenates ==
    pc = "done" =>
        /\ Len(flat) = TotalRows(lists)
        /\ \A i \in 1..Len(lists) : \A j \in 1..Len(lists[i]) :
              flat[Offset(i) + j] = lists[i][j]

C18_Witness ==
    /\ pc = "done"
    /\ lists = << <<1, 2>>, <<>>, <<2>> >>
    /\ flat = <<1, 2, 2>>


(* The configuration key behind each argument of Neo4jArrowClient *)
Binding ==
    [ neo4j_host |-> "host", graph_name |-> "graph", neo4j_port |-> "port",
      neo4j_use_tls |-> "tls", neo4j_db_name |-> "database",
      neo4j_user |-> "user", neo4j_password |-> "password",
      neo4j_concurrency |-> "concurrency" ]

(* C19: in both jobs, after a successful secret fetch, every binding of    *)
(* the graph-server client (host, port, TLS flag, database name, graph     *)
(* name, user, password, concurrency) whose key the secret provides has    *)
(* the secret's value when the client is constructed.                      *)
C19_SecretWinsEveryBinding ==
    (fetches # <<>> /\ client # <<>>) =>
        LET fetched == fetches[Len(fetches)].result
        IN  (fetched # <<>> /\ fetches[Len(fetches)].name # None) =>
               \A k \in (DOMAIN Binding) \cap (DOMAIN fetched[1]) :
                   client[1][Binding[k]] = fetched[1][k]


(* The phase of the import job the driver is in, or is about to enter *)
Phase(p) ==
    CASE p = "parse_args" -> 1
      [] p \in {"load_model", "override"} -> 2
      [] p = "resolve_secret" -> 3
      [] p \in {"open_clients", "prepare_streams"} -> 4
      [] p = "start" -> 5
      [] p = "stream_nodes" -> 6
      [] p = "nodes_done" -> 7
      [] p = "stream_edges" -> 8
      [] p = "edges_done" -> 9
      [] p = "done" -> 10
      [] OTHER -> 0

(* The place of a graph-server operation in the order of the phases *)
OpRank(o) ==
    CASE o = "start" -> 5
      [] o = "write_nodes" -> 6
      [] o = "nodes_done" -> 7
      [] o = "write_edges" -> 8
      [] o = "edges_done" -> 9

ServerInPhaseOrder ==
    /\ \A i, j \in 1..Len(server) :
          i < j => /\ OpRank(server[i].op) <= OpRank(server[j].op)
                   /\ server[j].op \in {"start", "nodes_done", "edges_done"}
                         => server[i].op # server[j].op
    /\ \A i \in OpsAt("start") : i = 1 /\ server[i].force
    /\ server # <<>> => server[1].op = "start"
    /\ OpsAt("write_edges") \cup OpsAt("edges_done") # {} => OpsAt("nodes_done") # {}
    /\ \A i \in 1..Len(server) : OpRank(server[i].op) < Phase(pc) \/ pc = "aborted"
          \/ (OpRank(server[i].op) = Phase(pc) /\ pc \in {"stream_nodes", "stream_edges"})
    /\ Phase(pc) > 5 => OpsAt("start") # {}
    /\ Phase(pc) > 7 => OpsAt("nodes_done") # {}
    /\ Phase(pc) > 9 => OpsAt("edges_done") # {}

PhaseStep ==
    /\ pc \notin {"aborted", "done"}
    /\ pc' # pc => pc' = "aborted" \/ Phase(pc') \in {Phase(pc), Phase(pc) + 1}
    /\ pc' = "aborted" => server' = server

(* C20: every import run goes through the phases parse, load model,        *)
(* resolve secret, open clients, start projection, stream nodes, signal    *)
(* nodes done, stream edges, signal edges done in this order, never        *)
(* skipping, repeating or retrying one: the graph server sees start once,  *)
(* with force, before any node batch, nodes_done at most once, edges_done  *)
(* at most once and only after nodes_done, and a run that failed or        *)
(* aborted issues no further graph-server operation.                       *)
C20_PhaseOrder == []ServerInPhaseOrder /\ [][PhaseStep]_vars

C20_Witness ==
    /\ pc = "done"
    /\ Len(server) = 5
    /\ server[1].op = "start"
    /\ server[2].op = "write_nodes"
    /\ server[3].op = "nodes_done"
    /\ server[4].op = "write_edges"
    /\ server[5].op = "edges_done"


(* C21: for any iterable of row lists, _append_batch never calls the       *)
(* sink's append_rows with an empty row list, and a partition whose lists  *)
(* are all empty is never finalized and never aborts the run.              *)
C21_EmptyAppendSkipped ==
    \A p \in 1..Len(parts) :
        /\ \A i \in 1..Len(parts[p].sink) :
              parts[p].sink[i].op = "append_rows" => parts[p].sink[i].rows # <<>>
        /\ TotalRows(parts[p].input) = 0 => Finalizes(p) = {}
        /\ pc # "aborted"


GraphReadReached == IsExport /\ pc \in {"x_read", "x_append", "done"}

(* C22: in every export run that reaches the graph read, whatever the      *)
(* capitalisation of the sink mode, the descriptor bound to the sink, the  *)
(* reader, the converter and the filter agree on the element kind: node    *)
(* descriptor, read_nodes, arrow_to_nodes and the labels, or edge          *)
(* descriptor, read_edges, arrow_to_edges and the types; every read the    *)
(* graph server receives is of the kind of the sink's descriptor.          *)
C22_DescriptorReaderAgree ==
    GraphReadReached =>
        /\ sink # <<>>
        /\ plan # <<>>
        /\ \/ /\ Lower(args.bq_sink_mode) = "nodes"
              /\ sink[1].descriptor = "Node.DESCRIPTOR"
              /\ plan[1].reader = "read_nodes"
              /\ plan[1].converter = "arrow_to_nodes"
              /\ plan[1].topo_filters = args.neo4j_labels
              /\ \A i \in 1..Len(server) : server[i].op = "read_nodes"
           \/ /\ Lower(args.bq_sink_mode) = "edges"
              /\ sink[1].descriptor = "Edge.DESCRIPTOR"
              /\ plan[1].reader = "read_edges"
              /\ plan[1].converter = "arrow_to_edges"
              /\ plan[1].topo_filters = args.neo4j_types
              /\ \A i \in 1..Len(server) : server[i].op = "read_edges"

C22_Witness ==
    /\ GraphReadReached
    /\ pc = "done"
    /\ args.bq_sink_mode = "Nodes"
    /\ sink[1].descriptor = "Node.DESCRIPTOR"
    /\ plan[1].topo_filters = <<"Person">>
    /\ Len(server) = 2
    /\ cnt = 2


(* Some partition of the append stage has called the sink *)
SinkTouched == \E p \in 1..Len(parts) : parts[p].sink # <<>>

RECURSIVE InputsOverall(_, _)
InputsOverall(ps, p) ==
    IF p > Len(ps) THEN 0 ELSE Len(ps[p].input) + InputsOverall(ps, p + 1)

ReadBeforeAppend ==
    IsExport =>
        /\ pc = "x_read" => (parts = <<>> /\ reader.summary = <<>>)
        /\ (parts # <<>> \/ SinkTouched) =>
              /\ pc \in {"x_append", "done"}
              /\ reader.summary = <<[cnt |-> reader.cnt, sz |-> reader.sz]>>
              /\ InputsOverall(parts, 1) = Len(batches)
        /\ Len(batches) = Len(server)
        /\ Len(reader.rows) = Len(server)
        /\ \A i \in 1..Len(server) :
              /\ Len(batches[i]) = server[i].n
              /\ reader.rows[i] = server[i].n

ReadStep ==
    (IsExport /\ (server' # server \/ batches' # batches)) =>
        /\ parts = <<>>
        /\ parts' = <<>>
        /\ reader.summary = <<>>
        /\ Len(server') = Len(server) + 1
        /\ batches' = Append(batches, Rows(server'[Len(server')].n))

====
